---- MODULE Spec2Model ----
(***************************************************************************)
(* Model of ResourceAllocator (resource_allocator.py): a capacity ledger   *)
(* `available`, a per-user ledger `user_limitations`, the operations       *)
(* allocate_resource and get_resource_status, and the ResourceRequest      *)
(* validator.  Quantities are floats in the source; the model uses         *)
(* integers, on which the comparisons and the subtraction are exact.       *)
(***************************************************************************)
EXTENDS Integers, FiniteSets, Sequences, TLC

\* ---- bounds of the model ------------------------------------------------
\* largest quantity a request may carry
MaxQuantity == 1001
\* largest initial capacity of a resource type
MaxCapacity == 1002
\* number of allocate_resource calls made in one run
MaxCalls == 3
\* number of allocate_resource calls running concurrently
NumThreads == 2

\* ---- program constant ---------------------------------------------------
\* the hard-coded per-user ceiling of _check_user_limitations
QuotaLimit == 1000

\* ---- input domains ------------------------------------------------------
\* keys of the dict handed to the constructor
Registered == {"cpu", "gpu"}
\* resource type strings a caller may pass ("tpu" is never registered)
ResourceTypes == Registered \cup {"tpu", ""}
\* user ids a caller may pass
Users == {"u1", ""}
\* quantities a caller may put in a request
Quantities == {-1, 0, 1, QuotaLimit - 1, QuotaLimit, MaxQuantity}
\* dicts a caller may hand to the constructor
InitialResources ==
    { [t \in Registered |-> IF t = "cpu" THEN c ELSE g] :
          c \in {0, MaxCapacity}, g \in {-1, 1} }
\* the value of Python's None
None == "None"
\* values a caller may store into a mapping it was handed
StoredValues == {0, MaxCapacity}
\* the identity of the dict object held in self.available
LedgerObject == "self.available"

\* ---- error messages raised by the source --------------------------------
MsgInvalid == "Quantity must be positive"
MsgUnavailable == "Resource unavailable or insufficient"
MsgQuota == "User has exceeded allocation limits"
MsgInsufficient == "Insufficient resources available"

VARIABLES
    available,         \* self.available: resource type -> remaining quantity
    user_limitations,  \* self.user_limitations: user id -> recorded quantity
    call,              \* the last call made on the allocator and its arguments
    result,            \* what that call returned or raised
    initial,           \* history: the dict the constructor received
    granted,           \* history: user id -> sum of quantities successfully granted
    ncalls,            \* history: number of allocate_resource calls made so far
    allocated,         \* history: resource type -> sum of quantities successfully granted
    threads            \* concurrent host: thread id -> position and locals of its call

vars == <<available, user_limitations, call, result, initial, granted, ncalls,
          allocated, threads>>

\* ---- ResourceRequest ----------------------------------------------------
\* variant of check_quantity that refuses only negative quantities (v < 0)
check_quantity_negative_only(v) == ~(v < 0)

\* the validator of the quantity field: TRUE when it returns v, FALSE when it raises
check_quantity(v) == ~(v <= 0)

\* the request value object
ResourceRequest(t, q, u) == [type |-> t, quantity |-> q, user_id |-> u]

\* ---- ResourceAllocator helpers -----------------------------------------
\* TRUE when _validate_resource_availability raises
validate_resource_availability(avail, resource_type) ==
    resource_type \notin DOMAIN avail \/ avail[resource_type] <= 0

\* variant of check_user_limitations that replaces the ledger on a first request
check_user_limitations_resets(limits, user_id, quantity) ==
    IF user_id \in DOMAIN limits
    THEN LET total_requested == limits[user_id] + quantity
         IN  [raised |-> total_requested > QuotaLimit, limits |-> limits]
    ELSE [raised |-> FALSE, limits |-> [u \in {user_id} |-> quantity]]

\* variant of check_user_limitations that writes the new total back on a pass
check_user_limitations_accumulates(limits, user_id, quantity) ==
    IF user_id \in DOMAIN limits
    THEN LET total_requested == limits[user_id] + quantity
         IN  [raised |-> total_requested > QuotaLimit,
              limits |-> IF total_requested > QuotaLimit THEN limits
                         ELSE [limits EXCEPT ![user_id] = total_requested]]
    ELSE [raised |-> FALSE,
          limits |-> [u \in DOMAIN limits \cup {user_id} |->
                         IF u = user_id THEN quantity ELSE limits[u]]]

\* _check_user_limitations: whether it raises, and the ledger it leaves
check_user_limitations(limits, user_id, quantity) ==
    IF user_id \in DOMAIN limits
    THEN LET total_requested == limits[user_id] + quantity
         IN  [raised |-> total_requested > QuotaLimit, limits |-> limits]
    ELSE [raised |-> FALSE,
          limits |-> [u \in DOMAIN limits \cup {user_id} |->
                         IF u = user_id THEN quantity ELSE limits[u]]]

\* variant of perform_allocation that decrements without comparing
perform_allocation_unchecked(avail, resource_type, quantity) ==
    [raised |-> FALSE,
     avail |-> [avail EXCEPT ![resource_type] = @ - quantity],
     ret |-> quantity]

\* variant of perform_allocation that grants without decrementing
perform_allocation_keeps(avail, resource_type, quantity) ==
    IF avail[resource_type] >= quantity
    THEN [raised |-> FALSE, avail |-> avail, ret |-> quantity]
    ELSE [raised |-> TRUE, avail |-> avail, ret |-> None]

\* variant of perform_allocation that adds the quantity instead of subtracting it
perform_allocation_adds(avail, resource_type, quantity) ==
    IF avail[resource_type] >= quantity
    THEN [raised |-> FALSE,
          avail |-> [avail EXCEPT ![resource_type] = @ + quantity],
          ret |-> quantity]
    ELSE [raised |-> TRUE, avail |-> avail, ret |-> None]

\* variant of perform_allocation that returns the new remaining quantity
perform_allocation_returns_remaining(avail, resource_type, quantity) ==
    IF avail[resource_type] >= quantity
    THEN [raised |-> FALSE,
          avail |-> [avail EXCEPT ![resource_type] = @ - quantity],
          ret |-> avail[resource_type] - quantity]
    ELSE [raised |-> TRUE, avail |-> avail, ret |-> None]

\* variant of perform_allocation that compares with > instead of >=
perform_allocation_strict(avail, resource_type, quantity) ==
    IF avail[resource_type] > quantity
    THEN [raised |-> FALSE,
          avail |-> [avail EXCEPT ![resource_type] = @ - quantity],
          ret |-> quantity]
    ELSE [raised |-> TRUE, avail |-> avail, ret |-> None]

\* _perform_allocation: whether it raises, the ledger it leaves, the value returned
perform_allocation(avail, resource_type, quantity) ==
    IF avail[resource_type] >= quantity
    THEN [raised |-> FALSE,
          avail |-> [avail EXCEPT ![resource_type] = @ - quantity],
          ret |-> quantity]
    ELSE [raised |-> TRUE, avail |-> avail, ret |-> None]

\* the body of allocate_resource: the ledgers it leaves and what it returns or raises
allocate_resource(avail, limits, user_id, request) ==
    IF validate_resource_availability(avail, request.type)
    THEN [avail |-> avail, limits |-> limits,
          result |-> [status |-> "error", message |-> MsgUnavailable]]
    ELSE LET required == request.quantity
             chk == check_user_limitations(limits, user_id, required)
         IN  IF chk.raised
             THEN [avail |-> avail, limits |-> chk.limits,
                   result |-> [status |-> "error", message |-> MsgQuota]]
             ELSE LET alloc == perform_allocation(avail, request.type, required)
                  IN  IF alloc.raised
                      THEN [avail |-> alloc.avail, limits |-> chk.limits,
                            result |-> [status |-> "error", message |-> MsgInsufficient]]
                      ELSE [avail |-> alloc.avail, limits |-> chk.limits,
                            result |-> [status |-> "success",
                                        allocated_quantity |-> alloc.ret,
                                        remaining_resources |-> alloc.avail[request.type]]]

\* the body of get_resource_status
get_resource_status(avail, resource_type) ==
    IF resource_type # None /\ resource_type # ""
    THEN [t \in {resource_type} |-> IF t \in DOMAIN avail THEN avail[t] ELSE 0]
    ELSE [t \in DOMAIN avail |-> avail[t]]

\* variant of get_resource_status_object that hands out the ledger itself
get_resource_status_object_ledger(resource_type) ==
    IF resource_type # None /\ resource_type # ""
    THEN "dict display"
    ELSE LedgerObject

\* the identity of the object get_resource_status returns: the dict display
\* {resource_type: ...} or the copy dict(self.available), never the ledger
get_resource_status_object(resource_type) ==
    IF resource_type # None /\ resource_type # ""
    THEN "dict display"
    ELSE "dict copy"

\* ---- state machine ------------------------------------------------------
\* ResourceAllocator.__init__
Init ==
    /\ available \in InitialResources
    /\ initial = available
    /\ user_limitations = [u \in {} |-> 0]
    /\ call = [op |-> "init"]
    /\ result = [status |-> "none"]
    /\ granted = [u \in Users |-> 0]
    /\ ncalls = 0
    /\ allocated = [t \in Registered |-> 0]
    /\ threads = << >>

\* a caller builds a ResourceRequest whose quantity the validator refuses
RejectRequest(u, t, q, ru) ==
    /\ ncalls < MaxCalls
    /\ ~check_quantity(q)
    /\ call' = [op |-> "allocate_resource", user_id |-> u,
                request |-> ResourceRequest(t, q, ru)]
    /\ result' = [status |-> "error", message |-> MsgInvalid]
    /\ ncalls' = ncalls + 1
    /\ UNCHANGED <<available, user_limitations, initial, granted, allocated, threads>>

\* a caller builds a valid ResourceRequest and calls allocate_resource
AllocateResource(u, t, q, ru) ==
    /\ ncalls < MaxCalls
    /\ check_quantity(q)
    /\ LET request == ResourceRequest(t, q, ru)
           out == allocate_resource(available, user_limitations, u, request)
       IN  /\ call' = [op |-> "allocate_resource", user_id |-> u, request |-> request]
           /\ available' = out.avail
           /\ user_limitations' = out.limits
           /\ result' = out.result
           /\ granted' = IF out.result.status = "success"
                         THEN [granted EXCEPT ![u] = @ + out.result.allocated_quantity]
                         ELSE granted
           /\ allocated' = IF out.result.status = "success"
                           THEN [allocated EXCEPT ![t] = @ + out.result.allocated_quantity]
                           ELSE allocated
    /\ ncalls' = ncalls + 1
    /\ UNCHANGED <<initial, threads>>

\* a caller asks for the status of one type, or of all (None)
GetResourceStatus(t) ==
    /\ call' = [op |-> "get_resource_status", resource_type |-> t]
    /\ result' = [status |-> "status",
                  mapping |-> get_resource_status(available, t),
                  object |-> get_resource_status_object(t)]
    /\ UNCHANGED <<available, user_limitations, initial, granted, ncalls,
                   allocated, threads>>

\* the caller stores value v under key k of the mapping the last
\* get_resource_status call handed out; the store reaches the ledger only if
\* that mapping is the ledger object itself
ModifyReturned(k, v) ==
    /\ result.status = "status"
    /\ k \in DOMAIN result.mapping
    /\ call' = [op |-> "modify_returned", key |-> k, value |-> v,
                of |-> IF call.op = "get_resource_status"
                       THEN call.resource_type ELSE call.of,
                returned |-> IF call.op = "get_resource_status"
                             THEN result.mapping ELSE call.returned]
    /\ result' = [result EXCEPT !.mapping[k] = v]
    /\ available' = IF result.object = LedgerObject
                    THEN [available EXCEPT ![k] = v]
                    ELSE available
    /\ UNCHANGED <<user_limitations, initial, granted, ncalls, allocated, threads>>

Next ==
    \/ \E u \in Users, t \in ResourceTypes, q \in Quantities, ru \in Users :
          RejectRequest(u, t, q, ru)
    \/ \E u \in Users, t \in ResourceTypes, q \in Quantities, ru \in Users :
          AllocateResource(u, t, q, ru)
    \/ \E t \in ResourceTypes \cup {None} : GetResourceStatus(t)
    \/ \E k \in ResourceTypes, v \in StoredValues : ModifyReturned(k, v)

Spec == Init /\ [][Next]_vars

TypeOK ==
    /\ DOMAIN available = Registered
    /\ DOMAIN user_limitations \subseteq Users
    /\ \A u \in Users : granted[u] \in Nat
\* ---- concurrent host: allocate_resource calls interleaved ----------------
\* Each thread runs allocate_resource without a lock; a step is one read or
\* one write of a ledger, so the test of line 84 and the two halves of the
\* `-=` of line 85 are separate steps.
ThreadIds == 1 .. NumThreads
\* the quantity each of the concurrent calls asks for (C / N)
Shares == {1, 600}

\* variant of decrement that takes the quantity off twice
decrement_twice(remaining, quantity) == remaining - quantity - quantity

\* the arithmetic of `self.available[resource_type] -= quantity`
decrement(remaining, quantity) == remaining - quantity

\* N calls against the one resource "cpu" of capacity C, each asking for C / N
InitConc ==
    /\ available \in { [t \in Registered |-> IF t = "cpu" THEN NumThreads * s ELSE 0] :
                          s \in Shares }
    /\ initial = available
    /\ user_limitations = [u \in {} |-> 0]
    /\ call = [op |-> "init"]
    /\ result = [status |-> "none"]
    /\ granted = [u \in Users |-> 0]
    /\ ncalls = 0
    /\ allocated = [t \in Registered |-> 0]
    /\ threads \in [ThreadIds ->
                      { [pc |-> "validate", user_id |-> u, type |-> "cpu",
                         quantity |-> available["cpu"] \div NumThreads,
                         tmp |-> 0, message |-> None] : u \in Users }]

\* the thread leaves allocate_resource through the except clause
Raise(i, msg) == [threads EXCEPT ![i].pc = "raised", ![i].message = msg]
\* the thread moves on to the step named pc
Goto(i, pc) == [threads EXCEPT ![i].pc = pc]

\* line 45: _validate_resource_availability
T_Validate(i) ==
    /\ threads[i].pc = "validate"
    /\ threads' = IF validate_resource_availability(available, threads[i].type)
                  THEN Raise(i, MsgUnavailable)
                  ELSE Goto(i, "limits_test")
    /\ UNCHANGED <<available, user_limitations, call, result, initial, granted,
                   ncalls, allocated>>

\* line 75: the membership test of _check_user_limitations
T_LimitsTest(i) ==
    /\ threads[i].pc = "limits_test"
    /\ threads' = IF threads[i].user_id \in DOMAIN user_limitations
                  THEN Goto(i, "limits_sum")
                  ELSE Goto(i, "limits_store")
    /\ UNCHANGED <<available, user_limitations, call, result, initial, granted,
                   ncalls, allocated>>

\* lines 76-78: the sum and its comparison with the ceiling
T_LimitsSum(i) ==
    /\ threads[i].pc = "limits_sum"
    /\ threads' = IF check_user_limitations(user_limitations, threads[i].user_id,
                                            threads[i].quantity).raised
                  THEN Raise(i, MsgQuota)
                  ELSE Goto(i, "capacity_test")
    /\ UNCHANGED <<available, user_limitations, call, result, initial, granted,
                   ncalls, allocated>>

\* line 80: the store of the first quantity
T_LimitsStore(i) ==
    /\ threads[i].pc = "limits_store"
    /\ user_limitations' =
           [u \in DOMAIN user_limitations \cup {threads[i].user_id} |->
               IF u = threads[i].user_id THEN threads[i].quantity
               ELSE user_limitations[u]]
    /\ threads' = Goto(i, "capacity_test")
    /\ UNCHANGED <<available, call, result, initial, granted, ncalls, allocated>>

\* line 84: the capacity test of _perform_allocation
T_CapacityTest(i) ==
    /\ threads[i].pc = "capacity_test"
    /\ threads' = IF perform_allocation(available, threads[i].type,
                                        threads[i].quantity).raised
                  THEN Raise(i, MsgInsufficient)
                  ELSE Goto(i, "load")
    /\ UNCHANGED <<available, user_limitations, call, result, initial, granted,
                   ncalls, allocated>>

\* line 85, first half: read the remaining quantity
T_Load(i) ==
    /\ threads[i].pc = "load"
    /\ threads' = [threads EXCEPT ![i].pc = "store",
                                  ![i].tmp = available[threads[i].type]]
    /\ UNCHANGED <<available, user_limitations, call, result, initial, granted,
                   ncalls, allocated>>

\* line 85, second half: write back the value read minus the quantity
T_Store(i) ==
    /\ threads[i].pc = "store"
    /\ available' = [available EXCEPT ![threads[i].type] =
                        decrement(threads[i].tmp, threads[i].quantity)]
    /\ threads' = Goto(i, "return")
    /\ UNCHANGED <<user_limitations, call, result, initial, granted, ncalls, allocated>>

\* lines 58-62: the success dict is returned
T_Return(i) ==
    /\ threads[i].pc = "return"
    /\ threads' = [threads EXCEPT ![i].pc = "returned",
                                  ![i].tmp = available[threads[i].type]]
    /\ granted' = [granted EXCEPT ![threads[i].user_id] = @ + threads[i].quantity]
    /\ allocated' = [allocated EXCEPT ![threads[i].type] = @ + threads[i].quantity]
    /\ UNCHANGED <<available, user_limitations, call, result, initial, ncalls>>

NextConc ==
    \/ \E i \in ThreadIds : T_Validate(i)
    \/ \E i \in ThreadIds : T_LimitsTest(i)
    \/ \E i \in ThreadIds : T_LimitsSum(i)
    \/ \E i \in ThreadIds : T_LimitsStore(i)
    \/ \E i \in ThreadIds : T_CapacityTest(i)
    \/ \E i \in ThreadIds : T_Load(i)
    \/ \E i \in ThreadIds : T_Store(i)
    \/ \E i \in ThreadIds : T_Return(i)

SpecConc == InitConc /\ [][NextConc]_vars

\* ---- vocabulary of the properties ---------------------------------------
\* the state is the one right after an allocate_resource call
IsAllocate == call.op = "allocate_resource"
\* that call returned the success dict
Succeeded == IsAllocate /\ result.status = "success"
\* that call raised with message msg
Failed(msg) == IsAllocate /\ result.status = "error" /\ result.message = msg
\* the step is an allocate_resource call (its arguments are in call')
AllocateStep == ncalls' = ncalls + 1
\* the total recorded for user u in a quota ledger, 0 without a record
Recorded(limits, u) == IF u \in DOMAIN limits THEN limits[u] ELSE 0

\* ---- C1 -----------------------------------------------------------------
\* C1: in every reachable state, for every user, the sum of the quantities
\* granted to that user by successful allocations is at most 1000.
C1_QuotaCeiling == \A u \in Users : granted[u] <= QuotaLimit

\* ---- C2 -----------------------------------------------------------------
\* C2: a first request (user without a record) for more than 1000 units of an
\* available type fails with the quota error and grants nothing.
C2_FirstRequestChecked ==
    [][ ( /\ AllocateStep
          /\ call'.user_id \notin DOMAIN user_limitations
          /\ call'.request.quantity > QuotaLimit
          /\ ~validate_resource_availability(available, call'.request.type) )
        => ( /\ result'.status = "error"
             /\ result'.message = MsgQuota
             /\ available' = available
             /\ granted' = granted ) ]_vars

\* ---- C3 -----------------------------------------------------------------
\* C3: an allocate_resource call that fails leaves the capacity ledger and the
\* user quota ledger exactly as they were.
C3_FailureLeavesLedgers ==
    [][ (AllocateStep /\ result'.status = "error")
        => (available' = available /\ user_limitations' = user_limitations) ]_vars

\* ---- C4 -----------------------------------------------------------------
\* C4: after every successful allocate_resource call the quota ledger entry of
\* the requesting user equals the sum of that user's successful allocations.
C4_LedgerIsCumulative ==
    Succeeded => /\ call.user_id \in DOMAIN user_limitations
                 /\ user_limitations[call.user_id] = granted[call.user_id]

\* ---- C5 -----------------------------------------------------------------
\* C5: when every initial capacity is non-negative, the remaining quantity of
\* every resource type is >= 0 in every reachable state.
C5_RemainingNonNegative ==
    (\A t \in DOMAIN initial : initial[t] >= 0)
        => (\A t \in DOMAIN available : available[t] >= 0)

\* a successful allocation has emptied a type of a pool without negative capacity
C5_Witness ==
    /\ \A t \in DOMAIN initial : initial[t] >= 0
    /\ Succeeded
    /\ available[call.request.type] = 0
    /\ initial[call.request.type] > 0

\* ---- C6 -----------------------------------------------------------------
\* C6: a successful call for type T and quantity q leaves ledger[T] = old
\* ledger[T] - q, returns allocated_quantity = q and remaining_resources = the
\* new ledger[T].
C6_SuccessResult ==
    [][ (AllocateStep /\ result'.status = "success")
        => LET T == call'.request.type
               q == call'.request.quantity
           IN  /\ available'[T] = available[T] - q
               /\ result'.allocated_quantity = q
               /\ result'.remaining_resources = available'[T] ]_vars

\* a successful allocation that leaves part of the capacity behind
C6_Witness ==
    /\ Succeeded
    /\ result.allocated_quantity = call.request.quantity
    /\ result.remaining_resources > 0
    /\ result.remaining_resources < initial[call.request.type]

\* ---- C7 -----------------------------------------------------------------
\* C7: a user whose cumulative granted quantity is exactly 1000 is rejected on
\* any further positive-quantity request; a user whose cumulative granted
\* quantity is 999 and who requests 1 from a type with enough capacity succeeds
\* and the recorded total is then exactly 1000.
C7_QuotaBoundary ==
    [][ AllocateStep =>
        LET u == call'.user_id
            T == call'.request.type
            q == call'.request.quantity
        IN  /\ (granted[u] = QuotaLimit /\ q > 0)
                   => (result'.status = "error" /\ granted'[u] = granted[u])
            /\ (granted[u] = QuotaLimit - 1 /\ q = 1
                    /\ T \in DOMAIN available /\ available[T] >= 1)
                   => ( /\ result'.status = "success"
                        /\ Recorded(user_limitations', u) = QuotaLimit ) ]_vars

\* ---- C8 -----------------------------------------------------------------
\* C8: for a registered type with remaining r > 0 and a user whose recorded
\* total plus the request stays within 1000, a request for exactly r succeeds
\* and leaves 0; a request for more than r fails with the insufficient-capacity
\* error and leaves r.
C8_CapacityBoundary ==
    [][ AllocateStep =>
        LET u == call'.user_id
            T == call'.request.type
            q == call'.request.quantity
        IN  ( /\ T \in DOMAIN available
              /\ available[T] > 0
              /\ q > 0
              /\ Recorded(user_limitations, u) + q <= QuotaLimit )
            => /\ (q = available[T])
                      => (result'.status = "success" /\ available'[T] = 0)
               /\ (q > available[T])
                      => ( /\ result'.status = "error"
                           /\ result'.message = MsgInsufficient
                           /\ available'[T] = available[T] ) ]_vars

\* a request for exactly the remaining quantity was granted and emptied the type
C8_Witness ==
    /\ Succeeded
    /\ call.request.quantity = initial[call.request.type]
    /\ result.remaining_resources = 0
    /\ available[call.request.type] = 0

\* ---- C9 -----------------------------------------------------------------
\* C9: the checks run in the order availability, quota, capacity: an unknown or
\* depleted type fails as unavailable; a request that exceeds both the user's
\* quota and the remaining capacity of an available type fails as
\* quota-exceeded; insufficient-capacity is reported only when the type is
\* available and the quota check passed.
C9_CheckOrder ==
    [][ (AllocateStep /\ call'.request.quantity > 0) =>
        LET u == call'.user_id
            T == call'.request.type
            q == call'.request.quantity
            unavailable == validate_resource_availability(available, T)
            overQuota == Recorded(user_limitations, u) + q > QuotaLimit
        IN  /\ unavailable
                   => (result'.status = "error" /\ result'.message = MsgUnavailable)
            /\ (~unavailable /\ overQuota /\ q > available[T])
                   => (result'.status = "error" /\ result'.message = MsgQuota)
            /\ (result'.status = "error" /\ result'.message = MsgInsufficient)
                   => (~unavailable /\ ~overQuota) ]_vars

\* ---- C10 ----------------------------------------------------------------
\* C10: a request with quantity <= 0 is always rejected as invalid, whatever
\* the ledgers hold, and both ledgers are unchanged.
C10_NonPositiveRejected ==
    [][ (AllocateStep /\ call'.request.quantity <= 0)
        => ( /\ result'.status = "error"
             /\ result'.message = MsgInvalid
             /\ available' = available
             /\ user_limitations' = user_limitations ) ]_vars

\* a request for 0 or less of a type with capacity left was rejected as invalid
C10_Witness ==
    /\ Failed(MsgInvalid)
    /\ call.request.quantity <= 0
    /\ call.request.type \in DOMAIN available
    /\ available[call.request.type] > 0

\* ---- C11 ----------------------------------------------------------------
\* C11: an allocate call with an empty user id or an empty resource type is
\* rejected as an invalid request, with no quota entry created and no capacity
\* decremented.
C11_EmptyIdsRejected ==
    [][ (AllocateStep /\ (call'.user_id = "" \/ call'.request.type = ""))
        => ( /\ result'.status = "error"
             /\ result'.message = MsgInvalid
             /\ available' = available
             /\ user_limitations' = user_limitations ) ]_vars

\* ---- C12 ----------------------------------------------------------------
\* C12: get_resource_status(type) returns the single-entry mapping
\* {type: remaining quantity} for a registered type and {type: 0} for every
\* type string that was never registered, and does not add the type to the
\* capacity ledger.
C12_StatusOfOneType ==
    (call.op = "get_resource_status" /\ call.resource_type # None)
        => /\ DOMAIN result.mapping = {call.resource_type}
           /\ result.mapping[call.resource_type] =
                  (IF call.resource_type \in DOMAIN initial
                   THEN available[call.resource_type] ELSE 0)
           /\ DOMAIN available = DOMAIN initial

\* ---- C13 ----------------------------------------------------------------
\* C13: get_resource_status changes neither ledger; two calls with the same
\* argument and no allocate_resource call in between return identical mappings;
\* the mapping handed out is a copy, so a store into it changes neither ledger
\* nor what a later get_resource_status call returns.
C13_StatusIsPureRead ==
    [][ /\ (call'.op = "get_resource_status")
            => (available' = available /\ user_limitations' = user_limitations)
        /\ (call'.op = "modify_returned")
            => (available' = available /\ user_limitations' = user_limitations)
        /\ ( /\ call.op = "get_resource_status"
             /\ call'.op = "get_resource_status"
             /\ call'.resource_type = call.resource_type )
            => result'.mapping = result.mapping
        /\ ( /\ call.op = "modify_returned"
             /\ call'.op = "get_resource_status"
             /\ call'.resource_type = call.of )
            => result'.mapping = call.returned ]_vars

\* the caller has overwritten an entry of a full snapshot and the ledger still
\* holds what the snapshot showed
C13_Witness ==
    /\ call.op = "modify_returned"
    /\ call.of = None
    /\ result.mapping # call.returned
    /\ available = call.returned
    /\ \E t \in DOMAIN available : available[t] < initial[t]

C15_CapacityMonotone ==
    [][ /\ \A t \in DOMAIN available :
               /\ t \in DOMAIN available'
               /\ available'[t] <= available[t]
               /\ (available'[t] < available[t])
                      => ( /\ AllocateStep
                           /\ result'.status = "success"
                           /\ call'.request.type = t )
        /\ ( /\ AllocateStep
             /\ call'.request.type \in DOMAIN available
             /\ available[call'.request.type] = 0 )
               => result'.status = "error" ]_vars

\* a type drained by allocations has refused a later request with a positive quantity
C15_Witness ==
    /\ Failed(MsgUnavailable)
    /\ call.request.quantity > 0
    /\ call.request.type \in DOMAIN available
    /\ available[call.request.type] = 0
    /\ initial[call.request.type] > 0

\* ---- C16 ----------------------------------------------------------------
\* C16: a user's quota ledger entry is written exactly once, with the quantity
\* of the user's first request that reaches the quota check, and no later call
\* modifies it; a later request that reaches the quota check is rejected there
\* iff that entry plus the new quantity exceeds 1000.
C16_ReferenceBookkeeping ==
    [][ LET reaches == /\ AllocateStep
                       /\ call'.request.quantity > 0
                       /\ ~validate_resource_availability(available, call'.request.type)
            u == call'.user_id
            q == call'.request.quantity
            quotaError == result'.status = "error" /\ result'.message = MsgQuota
        IN  /\ \A w \in DOMAIN user_limitations :
                   /\ w \in DOMAIN user_limitations'
                   /\ user_limitations'[w] = user_limitations[w]
            /\ (user_limitations' # user_limitations)
                   => (reaches /\ u \notin DOMAIN user_limitations)
            /\ (reaches /\ u \notin DOMAIN user_limitations)
                   => ( /\ DOMAIN user_limitations' = DOMAIN user_limitations \cup {u}
                        /\ user_limitations'[u] = q
                        /\ ~quotaError )
            /\ (reaches /\ u \in DOMAIN user_limitations)
                   => (quotaError <=> user_limitations[u] + q > QuotaLimit)
            /\ (AllocateStep /\ quotaError) => reaches ]_vars

\* a user has been granted more than the entry that the first request left
C16_Witness ==
    /\ Succeeded
    /\ call.user_id \in DOMAIN user_limitations
    /\ user_limitations[call.user_id] < granted[call.user_id]
    /\ user_limitations[call.user_id] + call.request.quantity <= QuotaLimit

\* ---- C17 ----------------------------------------------------------------
\* C17 as stated: for every resource type the initial capacity equals the
\* remaining quantity plus the sum of the quantities granted of that type, and
\* the total granted of a type never exceeds its initial capacity.
C17_ConservationAsStated ==
    \A t \in DOMAIN initial :
        /\ initial[t] = available[t] + allocated[t]
        /\ allocated[t] <= initial[t]

\* C17 as amended: for every resource type the initial capacity equals the
\* remaining quantity plus the sum of the quantities granted of that type, and
\* the total granted of a type whose initial capacity is non-negative never
\* exceeds that capacity.
C17_Conservation ==
    \A t \in DOMAIN initial :
        /\ initial[t] = available[t] + allocated[t]
        /\ (initial[t] >= 0) => (allocated[t] <= initial[t])

\* a type has been granted in two or more allocations and part of it is left
C17_Witness ==
    /\ Succeeded
    /\ allocated[call.request.type] > call.request.quantity
    /\ available[call.request.type] > 0
    /\ available[call.request.type] < initial[call.request.type]

\* ---- C18 ----------------------------------------------------------------
\* C18: an allocate_resource call by user U for type T, successful or not,
\* leaves the remaining quantity of every other type and the quota entry of
\* every other user unchanged and neither adds nor removes a key of the
\* capacity ledger.
C18_AllocateFrame ==
    [][ AllocateStep =>
        LET U == call'.user_id
            T == call'.request.type
        IN  /\ DOMAIN available' = DOMAIN available
            /\ \A t \in DOMAIN available \ {T} : available'[t] = available[t]
            /\ \A w \in Users \ {U} :
                   /\ (w \in DOMAIN user_limitations') <=> (w \in DOMAIN user_limitations)
                   /\ (w \in DOMAIN user_limitations)
                          => user_limitations'[w] = user_limitations[w] ]_vars

\* a first grant to one user while another user holds an entry and another
\* type holds capacity
C18_Witness ==
    /\ Succeeded
    /\ granted[call.user_id] = call.request.quantity
    /\ \E w \in DOMAIN user_limitations : w # call.user_id
    /\ \E t \in DOMAIN available : t # call.request.type /\ available[t] > 0
====
